---- MODULE Spec2Model ----
(***************************************************************************)
(* Bounce Engine: the collision world (Physics, colliders, resolver) and   *)
(* the fixed-step scheduler of Engine.gameLoop, as state machines.         *)
(*                                                                         *)
(* Lengths and velocities are integers counting 1/Unit of a pixel, so the  *)
(* resolver's halving of an overlap stays exact; times are integers        *)
(* counting 1/180 of a second, so 1/60 s is exact.                         *)
(***************************************************************************)
EXTENDS Integers, Sequences, FiniteSets, TLC

\* ---------------------------------------------------------------- bounds
NShapes == 3
MaxColliders == 3
HalvingBits == 2
GridReach == 2
MaxFrames == 4
StallGap == 40
MaxReach == 6
MaxForce == 2
MaxPending == 2
MaxStarts == 2

Unit == 2 ^ HalvingBits
ShapeIds == 1..NShapes

VARIABLES
    obj,              \* GameObject of each shape: name, active, x, y, and
                      \* scenePhysics: its scene has a physics (scene?.physics)
    rb,               \* RigidBody of each shape's owner (present = FALSE: none)
    col,              \* Collider component of each shape
    colliders,        \* Physics.colliders: the registered shapes, in order
    collisionMatrix,  \* Physics.collisionMatrix: Map key -> {a, b}, in insertion order
    call,             \* the detectCollisions call the last step made, if any
    seenHits,         \* unordered pairs the latest call found colliding
    seenTested,       \* unordered pairs the latest call tested (both active)
    called,           \* a detectCollisions call has been made
    removedSince,     \* shapes unregistered since the latest call
    forceSince,       \* per body, the sum of the forces added since it last integrated
    isRunning, isPaused, hasScene,   \* Engine flags; hasScene: currentScene # null
    readmeScene,      \* the scene's update is overridden as in the README platformer
    fps, frameCount, fpsTime,        \* Engine's frame-rate counters
    lastTime,         \* Engine.lastTime
    deltaTime,        \* Engine.deltaTime
    accumulator,      \* Engine.accumulator
    frameLog,         \* the frame the last step ran: gameLoop with the time elapsed,
                      \* then the calls it made, in order
    frames,           \* frames run so far
    ticksRun,         \* fixedUpdate calls so far
    sumDelta,         \* sum of deltaTime over the unpaused frames with a scene
    gameObjects,      \* Scene.gameObjects: the owners in the scene, in order
    _objectsToAdd,    \* Scene._objectsToAdd
    _objectsToRemove, \* Scene._objectsToRemove
    started,          \* per owner, how often its onStart was called
    requests          \* the Scene.add / Scene.remove calls since the latest
                      \* Scene.fixedUpdate, in the order they were made

worldVars == <<obj, rb, col, colliders, collisionMatrix, call,
               seenHits, seenTested, called, removedSince, forceSince>>
engineVars == <<isRunning, isPaused, hasScene, readmeScene, fps, frameCount, fpsTime,
                lastTime, deltaTime, accumulator, frameLog, frames, ticksRun, sumDelta>>
sceneVars == <<gameObjects, _objectsToAdd, _objectsToRemove, started, requests>>
vars == <<worldVars, engineVars, sceneVars>>

\* ------------------------------------------------------------- utilities
Min(a, b) == IF a < b THEN a ELSE b
Max(a, b) == IF a > b THEN a ELSE b

\* String(i) of a list index, as a template literal formats it.
IdxStr(i) ==
    CASE i = 0 -> "0" [] i = 1 -> "1" [] i = 2 -> "2" [] i = 3 -> "3"
      [] i = 4 -> "4" [] i = 5 -> "5" [] i = 6 -> "6" [] OTHER -> "7"

\* ------------------------------------------------------------- colliders
\* Collider.getWorldPosition, of a collider on the given game object
WorldPositionOf(gameObject, collider) ==
    [x |-> gameObject.x + collider.offsetX, y |-> gameObject.y + collider.offsetY]

\* BoxCollider.getBounds (widths are even, so width / 2 is exact)
BoundsOf(gameObject, collider) ==
    LET pos == WorldPositionOf(gameObject, collider)
    IN  [x |-> pos.x - (collider.width \div 2),
         y |-> pos.y - (collider.height \div 2),
         width |-> collider.width,
         height |-> collider.height]

getWorldPosition(o, c, s) == WorldPositionOf(o[s], c[s])
getBounds(o, c, s) == BoundsOf(o[s], c[s])

\* BoxCollider.intersects
BoxIntersects(o, c, s, t) ==
    LET a == getBounds(o, c, s)
        b == getBounds(o, c, t)
    IN  /\ a.x < b.x + b.width
        /\ a.x + a.width > b.x
        /\ a.y < b.y + b.height
        /\ a.y + a.height > b.y

\* CircleCollider.intersects: sqrt(dx^2 + dy^2) < r1 + r2, compared squared
CircleIntersects(o, c, s, t) ==
    LET pos1 == getWorldPosition(o, c, s)
        pos2 == getWorldPosition(o, c, t)
        dx == pos2.x - pos1.x
        dy == pos2.y - pos1.y
        rr == c[s].radius + c[t].radius
    IN  rr > 0 /\ dx * dx + dy * dy < rr * rr

\* CircleCollider.intersectsBox: s is the circle, t the box
CircleIntersectsBox(o, c, s, t) ==
    LET circle == getWorldPosition(o, c, s)
        rect == getBounds(o, c, t)
        closestX == Max(rect.x, Min(circle.x, rect.x + rect.width))
        closestY == Max(rect.y, Min(circle.y, rect.y + rect.height))
        dx == circle.x - closestX
        dy == circle.y - closestY
    IN  dx * dx + dy * dy < c[s].radius * c[s].radius

\* --------------------------------------------------------------- Physics
\* faulty variant: any body is moved, a kinematic one too
MovableAnyBody(r, s) == r[s].present

\* "rb && !rb.isKinematic": the side can be moved by the resolver
Movable(r, s) == r[s].present /\ ~r[s].isKinematic

\* resolveCollision's early return: neither has a body, or both are kinematic
SkipResolve(r, a, b) ==
    \/ ~r[a].present /\ ~r[b].present
    \/ /\ r[a].present /\ r[a].isKinematic
       /\ r[b].present /\ r[b].isKinematic

\* direction of the horizontal (vertical) push applied to a
DirectionX(boundsA, boundsB) == IF boundsA.x < boundsB.x THEN -1 ELSE 1
DirectionY(boundsA, boundsB) == IF boundsA.y < boundsB.y THEN -1 ELSE 1

OverlapX(boundsA, boundsB) ==
    Min(boundsA.x + boundsA.width - boundsB.x, boundsB.x + boundsB.width - boundsA.x)
OverlapY(boundsA, boundsB) ==
    Min(boundsA.y + boundsA.height - boundsB.y, boundsB.y + boundsB.height - boundsA.y)

\* faulty variant: equal overlaps are resolved horizontally
ResolveHorizontallyOnTie(overlapX, overlapY) == overlapX <= overlapY

\* "overlapX < overlapY": resolve horizontally
ResolveHorizontally(overlapX, overlapY) == overlapX < overlapY

\* faulty variant: the correction is never split
ShareNever(r, other) == 1

\* the divisor "(other && !other.isKinematic ? 2 : 1)"
Share(r, other) == IF Movable(r, other) THEN 2 ELSE 1

\* isGrounded is set on a when it was pushed up, on b when a was pushed down
GroundsA(direction) == direction < 0
\* faulty variant: b is grounded under a's condition
GroundsBLikeA(direction) == direction < 0
GroundsB(direction) == direction > 0

\* Physics.resolveCollision(a, b) on the world (o, r): the new obj and rb, and
\* whether every division by 2 was exact on the 1/Unit grid.
resolveCollision(o, r, c, a, b) ==
    IF SkipResolve(r, a, b)
    THEN [obj |-> o, rb |-> r, exact |-> TRUE]
    ELSE IF ~(c[a].kind = "BoxCollider" /\ c[b].kind = "BoxCollider")
    THEN [obj |-> o, rb |-> r, exact |-> TRUE]
    ELSE
    LET boundsA == getBounds(o, c, a)
        boundsB == getBounds(o, c, b)
        overlapX == OverlapX(boundsA, boundsB)
        overlapY == OverlapY(boundsA, boundsB)
        movA == Movable(r, a)
        movB == Movable(r, b)
    IN  IF ResolveHorizontally(overlapX, overlapY)
        THEN LET direction == DirectionX(boundsA, boundsB)
                 o1 == IF movA
                       THEN [o EXCEPT ![a].x = @ + (direction * overlapX) \div Share(r, b)]
                       ELSE o
                 r1 == IF movA
                       THEN [r EXCEPT ![a].velocityX = 0, ![a].isTouchingWall = TRUE]
                       ELSE r
                 o2 == IF movB
                       THEN [o1 EXCEPT ![b].x = @ - (direction * overlapX) \div Share(r, a)]
                       ELSE o1
                 r2 == IF movB
                       THEN [r1 EXCEPT ![b].velocityX = 0, ![b].isTouchingWall = TRUE]
                       ELSE r1
             IN  [obj |-> o2, rb |-> r2,
                  exact |-> (movA /\ movB) => (overlapX % 2 = 0)]
        ELSE LET direction == DirectionY(boundsA, boundsB)
                 o1 == IF movA
                       THEN [o EXCEPT ![a].y = @ + (direction * overlapY) \div Share(r, b)]
                       ELSE o
                 r1 == IF movA
                       THEN [r EXCEPT ![a].velocityY = 0,
                                      ![a].isGrounded = (@ \/ GroundsA(direction))]
                       ELSE r
                 o2 == IF movB
                       THEN [o1 EXCEPT ![b].y = @ - (direction * overlapY) \div Share(r, a)]
                       ELSE o1
                 r2 == IF movB
                       THEN [r1 EXCEPT ![b].velocityY = 0,
                                       ![b].isGrounded = (@ \/ GroundsB(direction))]
                       ELSE r1
             IN  [obj |-> o2, rb |-> r2,
                  exact |-> (movA /\ movB) => (overlapY % 2 = 0)]

\* faulty variant: whatever is not a circle is tested as a box
IsCollidingByFields(o, c, a, b) ==
    IF c[a].kind # "CircleCollider" /\ c[b].kind # "CircleCollider"
        THEN BoxIntersects(o, c, a, b)
    ELSE IF c[a].kind = "CircleCollider" /\ c[b].kind = "CircleCollider"
        THEN CircleIntersects(o, c, a, b)
    ELSE IF c[a].kind = "CircleCollider"
        THEN CircleIntersectsBox(o, c, a, b)
    ELSE CircleIntersectsBox(o, c, b, a)

\* faulty variant: a box followed by a circle is handed over in list order
IsCollidingInListOrder(o, c, a, b) ==
    IF c[a].kind = "BoxCollider" /\ c[b].kind = "BoxCollider"
        THEN BoxIntersects(o, c, a, b)
    ELSE IF c[a].kind = "CircleCollider" /\ c[b].kind = "CircleCollider"
        THEN CircleIntersects(o, c, a, b)
    ELSE IF c[a].kind = "CircleCollider" /\ c[b].kind = "BoxCollider"
        THEN CircleIntersectsBox(o, c, a, b)
    ELSE IF c[a].kind = "BoxCollider" /\ c[b].kind = "CircleCollider"
        THEN CircleIntersectsBox(o, c, a, b)
    ELSE FALSE

\* the intersection test detectCollisions picks from the two constructor names
IsColliding(o, c, a, b) ==
    IF c[a].kind = "BoxCollider" /\ c[b].kind = "BoxCollider"
        THEN BoxIntersects(o, c, a, b)
    ELSE IF c[a].kind = "CircleCollider" /\ c[b].kind = "CircleCollider"
        THEN CircleIntersects(o, c, a, b)
    ELSE IF c[a].kind = "CircleCollider" /\ c[b].kind = "BoxCollider"
        THEN CircleIntersectsBox(o, c, a, b)
    ELSE IF c[a].kind = "BoxCollider" /\ c[b].kind = "CircleCollider"
        THEN CircleIntersectsBox(o, c, b, a)
    ELSE FALSE

\* `${a.gameObject.name || i}`: an empty name is falsy, so the index stands in
KeyPart(name, index) == IF name # "" THEN name ELSE IdxStr(index)

\* the contact-table key of the pair at list indices i < j
PairKey(o, a, i, b, j) == KeyPart(o[a].name, i) \o "-" \o KeyPart(o[b].name, j)

\* faulty variant: one non-trigger shape is enough for the resolver to run
ShouldResolveEither(c, a, b) == ~c[a].isTrigger \/ ~c[b].isTrigger

\* "!a.isTrigger && !b.isTrigger": the pair is handed to the resolver
ShouldResolve(c, a, b) == ~c[a].isTrigger /\ ~c[b].isTrigger

\* both colliders take part: "if (!a.active || !b.active) continue"
BothActive(c, a, b) == c[a].active /\ c[b].active

\* Map.has / Map.set on a Map kept as the sequence of its entries
MapHas(m, key) == \E k \in 1..Len(m) : m[k].key = key
MapSet(m, key, a, b) ==
    IF MapHas(m, key)
    THEN [k \in 1..Len(m) |-> IF m[k].key = key THEN [key |-> key, a |-> a, b |-> b]
                                                ELSE m[k]]
    ELSE Append(m, [key |-> key, a |-> a, b |-> b])

Snapshot(o, r, a, b) == [objA |-> o[a], rbA |-> r[a], objB |-> o[b], rbB |-> r[b]]

\* faulty variant: the pair is resolved first and the callbacks see the result
ObservedAfterResolve(before, after) == after

\* what the enter / stay callbacks of a pair can read of the two owners and
\* bodies: they run before "this.resolveCollision(a, b)", on the world as the
\* pair's test left it (before), not as its resolution leaves it (after)
ObservedByCallbacks(before, after) == before

\* the body of detectCollisions' inner loop for list indices i < j (0-based)
PairStep(st, c, list, matrix, i, j) ==
    LET a == list[i + 1]
        b == list[j + 1]
    IN  IF ~BothActive(c, a, b) THEN st
        ELSE
        LET isColliding == IsColliding(st.obj, c, a, b)
            key == PairKey(st.obj, a, i, b, j)
            st1 == [st EXCEPT !.tested = @ \cup {{a, b}},
                              !.keys = @ \cup {[a |-> a, b |-> b, i |-> i, j |-> j,
                                                key |-> key]}]
        IN  IF ~isColliding THEN st1
            ELSE
            LET kind == IF MapHas(matrix, key) THEN "stay" ELSE "enter"
                res == IF ShouldResolve(c, a, b)
                       THEN resolveCollision(st.obj, st.rb, c, a, b)
                       ELSE [obj |-> st.obj, rb |-> st.rb, exact |-> TRUE]
            IN  [st1 EXCEPT
                    !.newCollisions = MapSet(@, key, a, b),
                    !.events = @ \o << <<kind, a, b>>, <<kind, b, a>> >>,
                    !.obj = res.obj,
                    !.rb = res.rb,
                    !.exact = @ /\ res.exact,
                    !.log = Append(@, [a |-> a, b |-> b, i |-> i, j |-> j,
                                       key |-> key, event |-> kind,
                                       resolved |-> ShouldResolve(c, a, b),
                                       observed |->
                                           ObservedByCallbacks(
                                               Snapshot(st.obj, st.rb, a, b),
                                               Snapshot(res.obj, res.rb, a, b)),
                                       pre |-> Snapshot(st.obj, st.rb, a, b),
                                       post |-> Snapshot(res.obj, res.rb, a, b)])]

\* Array.indexOf: the 1-based place of the first occurrence, 0 when absent
IndexOf(list, s) ==
    IF \E k \in 1..Len(list) : list[k] = s
    THEN CHOOSE k \in 1..Len(list) : list[k] = s /\ \A m \in 1..(k - 1) : list[m] # s
    ELSE 0

\* Array.splice(index, 1)
Splice(list, k) == [m \in 1..(Len(list) - 1) |-> IF m < k THEN list[m] ELSE list[m + 1]]

\* an onCollisionEnter assigned by gameplay code, run on the live list: it
\* unregisters a collider, registers one that is not in the list, or does nothing
RunHandler(h, list) ==
    CASE h.op = "remove" ->
            IF IndexOf(list, h.target) # 0 THEN Splice(list, IndexOf(list, h.target))
            ELSE list
      [] h.op = "add" ->
            IF IndexOf(list, h.target) = 0 THEN Append(list, h.target) ELSE list
      [] OTHER -> list

\* this.colliders after the callbacks of the pair at (i, j): a.onCollisionEnter(b),
\* then b.onCollisionEnter(a), when the pair collides and its key is new
AfterCallbacks(st, c, list, matrix, i, j) ==
    LET a == list[i + 1]
        b == list[j + 1]
    IN  IF /\ BothActive(c, a, b)
           /\ IsColliding(st.obj, c, a, b)
           /\ ~MapHas(matrix, PairKey(st.obj, a, i, b, j))
        THEN RunHandler(c[b].onCollisionEnter, RunHandler(c[a].onCollisionEnter, list))
        ELSE list

\* the two nested loops: i from 0, j from i + 1, up to colliders.length, which
\* is read again on every iteration
RECURSIVE RunPairs(_, _, _, _, _, _)
RunPairs(st, c, list, matrix, i, j) ==
    IF i >= Len(list) THEN [st EXCEPT !.colliders = list]
    ELSE IF j >= Len(list) THEN RunPairs(st, c, list, matrix, i + 1, i + 2)
    ELSE RunPairs(PairStep(st, c, list, matrix, i, j), c,
                  AfterCallbacks(st, c, list, matrix, i, j), matrix, i, j + 1)

\* the exit loop: entries of the previous table whose key is not in the new one
RECURSIVE ExitEvents(_, _, _)
ExitEvents(matrix, newCollisions, k) ==
    IF k > Len(matrix) THEN << >>
    ELSE (IF MapHas(newCollisions, matrix[k].key) THEN << >>
          ELSE << <<"exit", matrix[k].a, matrix[k].b>>,
                  <<"exit", matrix[k].b, matrix[k].a>> >>)
         \o ExitEvents(matrix, newCollisions, k + 1)

\* Physics.detectCollisions on the world (o, r) with the given list and table
detectCollisions(o, r, c, list, matrix) ==
    LET st0 == [obj |-> o, rb |-> r, newCollisions |-> << >>, events |-> << >>,
                log |-> << >>, tested |-> {}, keys |-> {}, exact |-> TRUE,
                colliders |-> list]
        st == RunPairs(st0, c, list, matrix, 0, 1)
    IN  [st EXCEPT !.events = @ \o ExitEvents(matrix, st.newCollisions, 1)]

\* ------------------------------------------------------- world: objects
\* new GameObject(x, y) with a name; active = true
NewObject(name, x, y) ==
    [name |-> name, active |-> TRUE, x |-> x, y |-> y, scenePhysics |-> FALSE]

\* new RigidBody(config) on the owner, or no RigidBody component at all
\* "config.maxVelocityX || Infinity": without a limit in the configuration
\* the clamp of fixedUpdate lets every velocity through
Unlimited == 0

\* the fields the RigidBody constructor sets when the configuration is empty:
\* drag 0.01 (as a fraction), mass 1, gravityScale 1, useGravity, active
DefaultBody ==
    [present |-> TRUE, active |-> TRUE, isKinematic |-> FALSE,
     velocityX |-> 0, velocityY |-> 0,
     accelerationX |-> 0, accelerationY |-> 0, forceX |-> 0, forceY |-> 0,
     mass |-> 1, drag |-> [num |-> 1, den |-> 100], gravityScale |-> 1,
     useGravity |-> TRUE, maxVelocityX |-> Unlimited, maxVelocityY |-> Unlimited,
     isGrounded |-> FALSE, isTouchingWall |-> FALSE]
NoBody == [DefaultBody EXCEPT !.present = FALSE]
NewBody(isKinematic, vx, vy) ==
    [DefaultBody EXCEPT !.isKinematic = isKinematic, !.velocityX = vx, !.velocityY = vy]
BodyOfKind(kind, vx, vy) ==
    IF kind = "none" THEN NoBody ELSE NewBody(kind = "kinematic", vx, vy)

\* Collider.onCollisionEnter as inherited: an empty body
NoHandler == [op |-> "none", target |-> 0]

\* new BoxCollider(width, height) / new CircleCollider(radius); active = true
NewBox(width, height, isTrigger) ==
    [kind |-> "BoxCollider", width |-> width, height |-> height, radius |-> 0,
     offsetX |-> 0, offsetY |-> 0, isTrigger |-> isTrigger, active |-> TRUE,
     onCollisionEnter |-> NoHandler]
NewCircle(radius, isTrigger) ==
    [kind |-> "CircleCollider", width |-> 0, height |-> 0, radius |-> radius,
     offsetX |-> 0, offsetY |-> 0, isTrigger |-> isTrigger, active |-> TRUE,
     onCollisionEnter |-> NoHandler]

\* an instance of a class that gameplay code derives from BoxCollider: it has
\* the box's fields and methods, and constructor.name is the derived class's
NewDerivedBox(width, height, isTrigger) ==
    [NewBox(width, height, isTrigger) EXCEPT !.kind = "DerivedBoxCollider"]

\* the unordered pairs a call found colliding
Hits(log) == {{log[k].a, log[k].b} : k \in 1..Len(log)}

\* ---------------------------------------------------------------- raycast
\* A JavaScript number as the ray arithmetic needs it: finite, an infinity
\* (inf = 1 or -1) or NaN.
Num(v) == [nan |-> FALSE, inf |-> 0, v |-> v]
PosInf == [nan |-> FALSE, inf |-> 1, v |-> 0]
NegInf == [nan |-> FALSE, inf |-> 0 - 1, v |-> 0]
NaN == [nan |-> TRUE, inf |-> 0, v |-> 0]

\* a < b on numbers: false as soon as one side is NaN
Less(a, b) ==
    /\ ~a.nan
    /\ ~b.nan
    /\ \/ a.inf < b.inf
       \/ a.inf = 0 /\ b.inf = 0 /\ a.v < b.v

\* Math.min and Math.max: NaN as soon as one argument is NaN
MathMin(a, b) == IF a.nan \/ b.nan THEN NaN ELSE IF Less(b, a) THEN b ELSE a
MathMax(a, b) == IF a.nan \/ b.nan THEN NaN ELSE IF Less(a, b) THEN b ELSE a

\* n / d for integers: exact for the directions and grid in use, an infinity
\* for a zero direction, NaN for 0 / 0
Divide(n, d) ==
    IF d # 0 THEN Num(IF d > 0 THEN n \div d ELSE (0 - n) \div (0 - d))
    ELSE IF n > 0 THEN PosInf
    ELSE IF n < 0 THEN NegInf
    ELSE NaN

\* x + dir * t
PointAt(x, dir, t) ==
    IF t.nan THEN NaN
    ELSE IF t.inf # 0
        THEN (IF dir = 0 THEN NaN ELSE IF dir * t.inf > 0 THEN PosInf ELSE NegInf)
    ELSE Num(x + dir * t.v)

\* "return null"
NoHit == [some |-> FALSE, distance |-> NaN, x |-> NaN, y |-> NaN, collider |-> 0]

\* tNear and tFar of raycastBox: the ray's parameters where it enters and
\* leaves the box
Slab(x, y, dirX, dirY, box) ==
    LET tMin == Divide(box.x - x, dirX)
        tMax == Divide(box.x + box.width - x, dirX)
        tYMin == Divide(box.y - y, dirY)
        tYMax == Divide(box.y + box.height - y, dirY)
        t1 == MathMin(tMin, tMax)
        t2 == MathMax(tMin, tMax)
        t3 == MathMin(tYMin, tYMax)
        t4 == MathMax(tYMin, tYMax)
    IN  [tNear |-> MathMax(t1, t3), tFar |-> MathMin(t2, t4)]

\* Physics.raycastBox
raycastBox(x, y, dirX, dirY, maxDistance, box) ==
    LET slab == Slab(x, y, dirX, dirY, box)
        tNear == slab.tNear
        tFar == slab.tFar
    IN  IF Less(tFar, tNear) \/ Less(tFar, Num(0)) \/ Less(Num(maxDistance), tNear)
        THEN NoHit
        ELSE [some |-> TRUE, distance |-> tNear,
              x |-> PointAt(x, dirX, tNear), y |-> PointAt(y, dirY, tNear),
              collider |-> 0]

\* the loop of raycast over this.colliders from place k: closestHit at its end
RECURSIVE RaycastFrom(_, _, _, _, _, _, _, _, _, _, _)
RaycastFrom(o, c, list, k, x, y, dirX, dirY, distance, closestHit, closestDistance) ==
    IF k > Len(list) THEN closestHit
    ELSE
    LET s == list[k]
        hit == IF c[s].active /\ c[s].kind = "BoxCollider"
               THEN raycastBox(x, y, dirX, dirY, distance, getBounds(o, c, s))
               ELSE NoHit
    IN  IF hit.some /\ Less(hit.distance, closestDistance)
        THEN RaycastFrom(o, c, list, k + 1, x, y, dirX, dirY, distance,
                         [hit EXCEPT !.collider = s], hit.distance)
        ELSE RaycastFrom(o, c, list, k + 1, x, y, dirX, dirY, distance,
                         closestHit, closestDistance)

\* Physics.raycast
raycast(o, c, list, x, y, dirX, dirY, distance) ==
    RaycastFrom(o, c, list, 1, x, y, dirX, dirY, distance, NoHit, Num(distance))

\* no raycast call was made by the step
NoRay ==
    [made |-> FALSE, x |-> 0, y |-> 0, dirX |-> 0, dirY |-> 0, distance |-> 0,
     result |-> NoHit]

\* -------------------------------------------------------------- RigidBody
\* Velocities count 1/Unit pixel per 1/180 s and accelerations 1/Unit pixel
\* per (1/180 s)^2, so that "velocity * dt" and "acceleration * dt" are exact.
\* physics.gravity, a field of Physics that gameplay code may set (980 px/s^2
\* when constructed), in these units
Gravity == 1

\* faulty variant: the velocity is not clamped
ClampVelocityNever(v, maxVelocity) == v

\* "Math.max(-this.maxVelocityX, Math.min(this.maxVelocityX, this.velocityX))"
ClampVelocity(v, maxVelocity) ==
    IF maxVelocity = Unlimited THEN v ELSE Max(0 - maxVelocity, Min(maxVelocity, v))

\* "velocity *= (1 - this.drag)" for a drag of num / den
Dragged(v, drag) == (v * (drag.den - drag.num)) \div drag.den

\* faulty variant: a kinematic body is integrated like any other
IsKinematicNever(body) == FALSE

\* "if (this.isKinematic) return;"
IsKinematic(body) == body.isKinematic

\* faulty variant: the forces are kept for the ticks to come
ResetForcesKeeping(body) == [body EXCEPT !.accelerationX = 0, !.accelerationY = 0]

\* "Reset forces and acceleration"
ResetForces(body) ==
    [body EXCEPT !.forceX = 0, !.forceY = 0, !.accelerationX = 0, !.accelerationY = 0]

\* faulty variant: a body that integrates is in the air again
LeaveFlagsClearing(body) == [body EXCEPT !.isGrounded = FALSE, !.isTouchingWall = FALSE]

\* fixedUpdate assigns neither isGrounded nor isTouchingWall
LeaveFlags(body) == body

\* RigidBody.fixedUpdate(dt) of the body of gameObject: the body and the
\* owner after it; exact: every division of the step came out whole
RigidBodyFixedUpdate(body, gameObject, dt) ==
    IF IsKinematic(body) THEN [rb |-> body, obj |-> gameObject, exact |-> TRUE]
    ELSE
    LET gravityY == IF body.useGravity /\ gameObject.scenePhysics
                    THEN Gravity * body.gravityScale ELSE 0
        accelerationX == body.accelerationX + body.forceX \div body.mass
        accelerationY == body.accelerationY + gravityY + body.forceY \div body.mass
        movedX == body.velocityX + accelerationX * dt
        movedY == body.velocityY + accelerationY * dt
        velocityX == ClampVelocity(Dragged(movedX, body.drag), body.maxVelocityX)
        velocityY == ClampVelocity(Dragged(movedY, body.drag), body.maxVelocityY)
    IN  [rb |-> LeaveFlags(ResetForces([body EXCEPT !.velocityX = velocityX,
                                                    !.velocityY = velocityY])),
         obj |-> [gameObject EXCEPT !.x = @ + velocityX * dt, !.y = @ + velocityY * dt],
         exact |-> /\ body.forceX % body.mass = 0
                   /\ body.forceY % body.mass = 0
                   /\ (movedX * (body.drag.den - body.drag.num)) % body.drag.den = 0
                   /\ (movedY * (body.drag.den - body.drag.num)) % body.drag.den = 0]

\* GameObject.fixedUpdate(dt) as far as the body goes: the RigidBody
\* component is updated when the owner has one and it is active
Integrates(body, gameObject) == gameObject.active /\ body.present /\ body.active

GameObjectFixedUpdate(body, gameObject, dt) ==
    IF Integrates(body, gameObject)
    THEN RigidBodyFixedUpdate(body, gameObject, dt)
    ELSE [rb |-> body, obj |-> gameObject, exact |-> TRUE]

\* no fixed tick was run, and no addForce call was made, by the step
NoTick == [made |-> FALSE, dt |-> 0, forces |-> << >>]
NoForce == [made |-> FALSE, body |-> 0, x |-> 0, y |-> 0]

\* no detectCollisions call was made by the step
NoCall ==
    [made |-> FALSE, first |-> FALSE, events |-> << >>, log |-> << >>,
     tested |-> {}, keys |-> {}, prevTested |-> {}, prevHits |-> {},
     removed |-> {}, objBefore |-> << >>, rbBefore |-> << >>, listBefore |-> << >>,
     ray |-> NoRay, tick |-> NoTick, force |-> NoForce]

\* --------------------------------------------------------- world actions
\* Physics.addCollider
AddCollider(s) ==
    /\ Len(colliders) < MaxColliders
    /\ colliders' = Append(colliders, s)
    /\ call' = NoCall
    /\ UNCHANGED <<obj, rb, col, collisionMatrix, seenHits, seenTested, called,
                   removedSince, forceSince, engineVars, sceneVars>>

\* Physics.removeCollider
RemoveCollider(s) ==
    /\ colliders' = IF IndexOf(colliders, s) # 0
                    THEN Splice(colliders, IndexOf(colliders, s))
                    ELSE colliders
    /\ call' = NoCall
    /\ removedSince' = IF IndexOf(colliders, s) # 0 THEN removedSince \cup {s}
                       ELSE removedSince
    /\ UNCHANGED <<obj, rb, col, collisionMatrix, seenHits, seenTested, called,
                   forceSince, engineVars, sceneVars>>

\* gameplay code writes an owner's position between two calls
SetPosition(s, x, y) ==
    /\ obj' = [obj EXCEPT ![s].x = x, ![s].y = y]
    /\ call' = NoCall
    /\ UNCHANGED <<rb, col, colliders, collisionMatrix, seenHits, seenTested, called,
                   removedSince, forceSince, engineVars, sceneVars>>

\* Physics.detectCollisions
DetectCollisions ==
    \E res \in {detectCollisions(obj, rb, col, colliders, collisionMatrix)} :
        /\ res.exact
        /\ obj' = res.obj
        /\ rb' = res.rb
        /\ collisionMatrix' = res.newCollisions
        /\ call' = [made |-> TRUE, first |-> ~called, events |-> res.events,
                     log |-> res.log, tested |-> res.tested,
                     keys |-> res.keys, prevTested |-> seenTested,
                     prevHits |-> seenHits, removed |-> removedSince,
                     objBefore |-> obj, rbBefore |-> rb, listBefore |-> colliders,
                     ray |-> NoRay, tick |-> NoTick, force |-> NoForce]
        /\ removedSince' = {}
        /\ seenHits' = Hits(res.log)
        /\ seenTested' = res.tested
        /\ called' = TRUE
        /\ colliders' = res.colliders
        /\ UNCHANGED <<col, forceSince, engineVars, sceneVars>>

\* faulty variant: the query starts from an empty contact table
RaycastClearing(x, y, dirX, dirY, distance) ==
    /\ \E result \in {raycast(obj, col, colliders, x, y, dirX, dirY, distance)} :
          call' = [NoCall EXCEPT !.ray =
                      [made |-> TRUE, x |-> x, y |-> y, dirX |-> dirX, dirY |-> dirY,
                       distance |-> distance, result |-> result]]
    /\ collisionMatrix' = << >>
    /\ UNCHANGED <<obj, rb, col, colliders, seenHits, seenTested,
                   called, removedSince, forceSince, engineVars, sceneVars>>

\* Physics.raycast(x, y, dirX, dirY, distance), called by gameplay code
Raycast(x, y, dirX, dirY, distance) ==
    /\ \E result \in {raycast(obj, col, colliders, x, y, dirX, dirY, distance)} :
          call' = [NoCall EXCEPT !.ray =
                      [made |-> TRUE, x |-> x, y |-> y, dirX |-> dirX, dirY |-> dirY,
                       distance |-> distance, result |-> result]]
    /\ UNCHANGED <<obj, rb, col, colliders, collisionMatrix, seenHits, seenTested,
                   called, removedSince, forceSince, engineVars, sceneVars>>

\* ---------------------------------------------------------------- Engine
\* Times count 1/180 s: fixedDeltaTime = 1/60 s, the clamp 0.1 s, and the
\* 1.0 s after which the frame-rate counter restarts.
FixedDeltaTime == 3
MaxDeltaTime == 18
FpsWindow == 180

\* new Engine(config): the timing and state fields of the constructor
EngineInit ==
    /\ isRunning = FALSE
    /\ isPaused = FALSE
    /\ hasScene = FALSE
    /\ fps = 0
    /\ frameCount = 0
    /\ fpsTime = 0
    /\ lastTime = 0
    /\ deltaTime = 0
    /\ accumulator = 0
    /\ frameLog = << >>
    /\ frames = 0
    /\ ticksRun = 0
    /\ sumDelta = 0

\* faulty variant: the elapsed time is not clamped
ClampDeltaOff(elapsed) == elapsed

\* "Math.min((currentTime - this.lastTime) / 1000, 0.1)"
ClampDelta(elapsed) == Min(elapsed, MaxDeltaTime)

\* faulty variant: a tick is run only when more than one tick of time is banked
TickDueStrict(acc) == acc > FixedDeltaTime

\* "while (this.accumulator >= this.fixedDeltaTime)"
TickDue(acc) == acc >= FixedDeltaTime

\* faulty variant: the fixed-update hook runs a detection after the integration
SceneFixedUpdateDetecting(dt) ==
    << [call |-> "fixedUpdate", dt |-> dt], [call |-> "detectCollisions", dt |-> 0] >>

\* Scene.fixedUpdate(dt): pending objects are processed and every active object
\* gets fixedUpdate(dt), which integrates its RigidBody; nothing else is called
SceneFixedUpdate(dt) == << [call |-> "fixedUpdate", dt |-> dt] >>

\* faulty variant: the variable-rate update is handed the fixed tick
SceneUpdateFixedDt(readme, dt) ==
    IF readme
    THEN << [call |-> "detectCollisions", dt |-> 0],
            [call |-> "update", dt |-> FixedDeltaTime] >>
    ELSE << [call |-> "update", dt |-> FixedDeltaTime] >>

\* scene.update(dt): Scene.update, or the README's override, which calls
\* physics.detectCollisions() before the original update
SceneUpdate(readme, dt) ==
    IF readme
    THEN << [call |-> "detectCollisions", dt |-> 0], [call |-> "update", dt |-> dt] >>
    ELSE << [call |-> "update", dt |-> dt] >>

\* the fixed-step loop of gameLoop: the accumulator left and the calls made
RECURSIVE TickLoop(_, _)
TickLoop(acc, log) ==
    IF TickDue(acc)
    THEN TickLoop(acc - FixedDeltaTime, log \o SceneFixedUpdate(FixedDeltaTime))
    ELSE [accumulator |-> acc, log |-> log]

TickCount(log) == Cardinality({k \in 1..Len(log) : log[k].call = "fixedUpdate"})

\* faulty variant: the frame's time is banked whether the frame steps or not
AccumulateAlways(acc, delta, stepped) == acc + delta

\* "this.accumulator += this.deltaTime" is inside
\* "if (!this.isPaused && this.currentScene)"
Accumulate(acc, delta, stepped) == IF stepped THEN acc + delta ELSE acc

\* Engine.gameLoop(currentTime), called while isRunning
GameLoop(currentTime, previousTime) ==
    LET delta == ClampDelta(currentTime - previousTime)
        counted == frameCount + 1
        window == fpsTime + delta
        stepped == ~isPaused /\ hasScene
        loop == IF stepped THEN TickLoop(Accumulate(accumulator, delta, stepped), << >>)
                ELSE [accumulator |-> Accumulate(accumulator, delta, stepped),
                      log |-> << >>]
        calls == << [call |-> "gameLoop", dt |-> currentTime - previousTime] >>
                 \o (IF stepped THEN loop.log \o SceneUpdate(readmeScene, delta)
                     ELSE << >>)
                 \o << [call |-> "render", dt |-> 0] >>
    IN  /\ deltaTime' = delta
        /\ lastTime' = currentTime
        /\ fps' = IF window >= FpsWindow THEN counted ELSE fps
        /\ frameCount' = IF window >= FpsWindow THEN 0 ELSE counted
        /\ fpsTime' = IF window >= FpsWindow THEN 0 ELSE window
        /\ accumulator' = loop.accumulator
        /\ frameLog' = calls
        /\ frames' = frames + 1
        /\ ticksRun' = ticksRun + TickCount(loop.log)
        /\ sumDelta' = IF stepped THEN sumDelta + delta ELSE sumDelta

\* the time that passed since the previous timestamp, on a clock that never
\* runs backwards
Gaps == {0, 1, FixedDeltaTime + 1, 2 * FixedDeltaTime + 2, MaxDeltaTime,
         MaxDeltaTime + StallGap}

\* Engine.start(): performance.now() is read into lastTime and the first frame runs
Start(now) ==
    /\ ~isRunning
    /\ frames < MaxFrames
    /\ isRunning' = TRUE
    /\ GameLoop(now, now)
    /\ UNCHANGED <<isPaused, hasScene, readmeScene, worldVars, sceneVars>>

\* Engine.stop()
Stop ==
    /\ isRunning' = FALSE
    /\ frameLog' = << >>
    /\ UNCHANGED <<isPaused, hasScene, readmeScene, fps, frameCount, fpsTime, lastTime,
                   deltaTime, accumulator, frames, ticksRun, sumDelta, worldVars, sceneVars>>

\* Engine.pause()
Pause ==
    /\ isPaused' = TRUE
    /\ frameLog' = << >>
    /\ UNCHANGED <<isRunning, hasScene, readmeScene, fps, frameCount, fpsTime, lastTime,
                   deltaTime, accumulator, frames, ticksRun, sumDelta, worldVars, sceneVars>>

\* Engine.resume()
Resume ==
    /\ isPaused' = FALSE
    /\ frameLog' = << >>
    /\ UNCHANGED <<isRunning, hasScene, readmeScene, fps, frameCount, fpsTime, lastTime,
                   deltaTime, accumulator, frames, ticksRun, sumDelta, worldVars, sceneVars>>

\* Engine.setScene(name) with a scene that was added
SetScene ==
    /\ hasScene' = TRUE
    /\ frameLog' = << >>
    /\ UNCHANGED <<isRunning, isPaused, readmeScene, fps, frameCount, fpsTime, lastTime,
                   deltaTime, accumulator, frames, ticksRun, sumDelta, worldVars, sceneVars>>

\* the requestAnimationFrame callback: gameLoop(time)
Frame(time) ==
    /\ isRunning
    /\ frames < MaxFrames
    /\ GameLoop(time, lastTime)
    /\ UNCHANGED <<isRunning, isPaused, hasScene, readmeScene, worldVars, sceneVars>>

\* ------------------------------------------------------------ body actions
\* RigidBody.addForce(x, y) on the body of shape s's owner
AddForce(s, x, y) ==
    /\ rb[s].present
    /\ rb' = [rb EXCEPT ![s].forceX = @ + x, ![s].forceY = @ + y]
    /\ forceSince' = [forceSince EXCEPT ![s].x = @ + x, ![s].y = @ + y]
    /\ call' = [NoCall EXCEPT !.force = [made |-> TRUE, body |-> s, x |-> x, y |-> y],
                              !.objBefore = obj, !.rbBefore = rb]
    /\ UNCHANGED <<obj, col, colliders, collisionMatrix, seenHits, seenTested, called,
                   removedSince, engineVars, sceneVars>>

\* how often owner o stands in list
CountIn(list, o) == Cardinality({k \in 1..Len(list) : list[k] = o})

\* the first loop of Scene._processPendingObjects: each owner of toRemove, from
\* the k-th on, is spliced out of list where indexOf finds it
RECURSIVE RemovePending(_, _, _)
RemovePending(list, toRemove, k) ==
    IF k > Len(toRemove) THEN list
    ELSE RemovePending(IF IndexOf(list, toRemove[k]) # 0
                       THEN Splice(list, IndexOf(list, toRemove[k]))
                       ELSE list,
                       toRemove, k + 1)

\* Scene._processPendingObjects(): the removals first, then the additions,
\* each added owner's onStart being called
ProcessPendingObjects(list, toAdd, toRemove, begun) ==
    [gameObjects |-> RemovePending(list, toRemove, 1) \o toAdd,
     started |-> [o \in ShapeIds |-> begun[o] + CountIn(toAdd, o)]]

\* the loop of Scene.fixedUpdate over gameObjects, from the k-th on: every
\* active owner gets fixedUpdate(dt)
RECURSIVE FixedUpdateObjects(_, _, _, _, _)
FixedUpdateObjects(list, k, o, r, dt) ==
    IF k > Len(list) THEN [obj |-> o, rb |-> r, exact |-> TRUE]
    ELSE LET s == list[k]
             res == GameObjectFixedUpdate(r[s], o[s], dt)
             rest == FixedUpdateObjects(list, k + 1, [o EXCEPT ![s] = res.obj],
                                        [r EXCEPT ![s] = res.rb], dt)
         IN  [rest EXCEPT !.exact = @ /\ res.exact]

\* Scene.add(gameObject): queued; the owner's scene is set at once
SceneAdd(o) ==
    /\ Len(_objectsToAdd) < MaxPending
    /\ started[o] + CountIn(_objectsToAdd, o) < MaxStarts
    /\ _objectsToAdd' = Append(_objectsToAdd, o)
    /\ requests' = Append(requests, [op |-> "add", o |-> o])
    /\ call' = NoCall
    /\ UNCHANGED <<obj, rb, col, colliders, collisionMatrix, seenHits, seenTested, called,
                   removedSince, forceSince, engineVars, gameObjects, _objectsToRemove,
                   started>>

\* Scene.remove(gameObject): queued
SceneRemove(o) ==
    /\ Len(_objectsToRemove) < MaxPending
    /\ _objectsToRemove' = Append(_objectsToRemove, o)
    /\ requests' = Append(requests, [op |-> "remove", o |-> o])
    /\ call' = NoCall
    /\ UNCHANGED <<obj, rb, col, colliders, collisionMatrix, seenHits, seenTested, called,
                   removedSince, forceSince, engineVars, gameObjects, _objectsToAdd,
                   started>>

\* Scene.fixedUpdate(dt) with dt = fixedDeltaTime: the pending owners are
\* processed, then every active game object of the scene gets fixedUpdate(dt),
\* which updates its components
FixedUpdate ==
    \E scene \in {ProcessPendingObjects(gameObjects, _objectsToAdd, _objectsToRemove,
                                        started)} :
    \E res \in {FixedUpdateObjects(scene.gameObjects, 1, obj, rb, FixedDeltaTime)} :
        /\ res.exact
        /\ \A s \in ShapeIds :
              /\ res.obj[s].x \in (0 - MaxReach * Unit)..(MaxReach * Unit)
              /\ res.obj[s].y \in (0 - MaxReach * Unit)..(MaxReach * Unit)
        /\ obj' = res.obj
        /\ rb' = res.rb
        /\ gameObjects' = scene.gameObjects
        /\ started' = scene.started
        /\ _objectsToAdd' = << >>
        /\ _objectsToRemove' = << >>
        /\ requests' = << >>
        /\ forceSince' = [s \in ShapeIds |->
                             IF /\ CountIn(scene.gameObjects, s) > 0
                                /\ Integrates(rb[s], obj[s]) /\ ~rb[s].isKinematic
                             THEN [x |-> 0, y |-> 0] ELSE forceSince[s]]
        /\ call' = [NoCall EXCEPT !.tick = [made |-> TRUE, dt |-> FixedDeltaTime,
                                            forces |-> forceSince],
                                  !.objBefore = obj, !.rbBefore = rb]
        /\ UNCHANGED <<col, colliders, collisionMatrix, seenHits, seenTested, called,
                       removedSince, engineVars>>

\* new Scene(name), after the owners of list were added and a fixedUpdate
\* processed them: they are in gameObjects and were started once
SceneInit(list) ==
    /\ gameObjects = list
    /\ _objectsToAdd = << >>
    /\ _objectsToRemove = << >>
    /\ started = [o \in ShapeIds |-> CountIn(list, o)]
    /\ requests = << >>

\* every shape's owner, in the order the owners were added to the scene
AllOwners == [k \in 1..NShapes |-> k]

\* ------------------------------------------------- the collision world
Names == {"", "p"}
WorldXs == {0, 4 * Unit}
\* the first shape's owner has a dynamic body, the others have none
WorldBody(s) == IF s = 1 THEN "dynamic" ELSE "none"

\* new Physics(scene): no collider registered, an empty contact table
PhysicsInit(list) ==
    /\ colliders = list
    /\ collisionMatrix = << >>
    /\ call = NoCall
    /\ seenHits = {}
    /\ seenTested = {}
    /\ called = FALSE
    /\ removedSince = {}
    /\ forceSince = [s \in ShapeIds |-> [x |-> 0, y |-> 0]]

\* Shapes of the world: 4 x 4 boxes on one row, named or unnamed
Init ==
    /\ PhysicsInit(<< >>)
    /\ EngineInit
    /\ SceneInit(AllOwners)
    /\ readmeScene = FALSE
    /\ \E name \in [ShapeIds -> Names] :
          /\ obj = [s \in ShapeIds |-> NewObject(name[s], 0, 0)]
          /\ rb = [s \in ShapeIds |-> BodyOfKind(WorldBody(s), Unit, Unit)]
          /\ col = [s \in ShapeIds |-> NewBox(4 * Unit, 4 * Unit, FALSE)]

\* every collider is registered at most once at a time
Registered == {colliders[k] : k \in 1..Len(colliders)}

Next ==
    \/ \E s \in ShapeIds \ Registered : AddCollider(s)
    \/ \E s \in ShapeIds : RemoveCollider(s)
    \/ \E s \in ShapeIds, x \in WorldXs : SetPosition(s, x, 0)
    \/ DetectCollisions

Spec == Init /\ [][Next]_vars

\* ------------------------------- callbacks that register and unregister
\* what gameplay code assigns to a collider's onCollisionEnter
Handlers == {NoHandler} \cup [op : {"remove", "add"}, target : ShapeIds]

\* every shape registered in order, bodyless 4 x 4 boxes on one spot, and one
\* of them with an onCollisionEnter of its own
InitCallback ==
    /\ PhysicsInit([k \in 1..NShapes |-> k])
    /\ EngineInit
    /\ SceneInit(AllOwners)
    /\ readmeScene = FALSE
    /\ obj = [s \in ShapeIds |-> NewObject("", 0, 0)]
    /\ rb = [s \in ShapeIds |-> NoBody]
    /\ \E owner \in ShapeIds, h \in Handlers :
          col = [s \in ShapeIds |->
                    [NewBox(4 * Unit, 4 * Unit, FALSE)
                        EXCEPT !.onCollisionEnter = IF s = owner THEN h ELSE NoHandler]]

NextCallback ==
    \/ \E s \in ShapeIds \ Registered : AddCollider(s)
    \/ \E s \in ShapeIds : RemoveCollider(s)
    \/ \E s \in ShapeIds, x \in WorldXs : SetPosition(s, x, 0)
    \/ DetectCollisions

SpecCallback == InitCallback /\ [][NextCallback]_vars

\* ------------------------------------------------------ rays over the world
\* where the two movable boxes may stand, the ray's directions and lengths
RayXs == {0 - 3 * Unit, 0, 2 * Unit, 3 * Unit}
RayYs == {0, Unit}
RayDirs == {0 - 1, 0, 1}
RayLengths == {Unit, 5 * Unit}

\* Shapes 1 and 2 are 2 x 2 boxes that gameplay code moves, the second active
\* or not; shape 3 is a circle next to the origin; further shapes are boxes.
\* No owner has a body.
InitRay ==
    /\ PhysicsInit(<< >>)
    /\ EngineInit
    /\ SceneInit(AllOwners)
    /\ readmeScene = FALSE
    /\ obj = [s \in ShapeIds |->
                 IF s = 3 THEN NewObject("", Unit, 0) ELSE NewObject("", 3 * Unit, 0)]
    /\ rb = [s \in ShapeIds |-> NoBody]
    /\ \E active \in BOOLEAN :
          col = [s \in ShapeIds |->
                    IF s = 3 THEN NewCircle(Unit, FALSE)
                    ELSE [NewBox(2 * Unit, 2 * Unit, FALSE)
                             EXCEPT !.active = (s # 2 \/ active)]]

NextRay ==
    \/ \E s \in ShapeIds \ Registered : AddCollider(s)
    \/ \E s \in {1, 2}, x \in RayXs, y \in RayYs : SetPosition(s, x, y)
    \/ \E dirX \in RayDirs, dirY \in RayDirs, distance \in RayLengths :
          (dirX # 0 \/ dirY # 0) /\ Raycast(0, 0, dirX, dirY, distance)

SpecRay == InitRay /\ [][NextRay]_vars

\* ------------------------------------------------- a body over a floor
\* the forces gameplay code adds, and the configurations of the body
Forces == {<<2, 0>>, <<0, 0 - 2>>}
Drags == {[num |-> 0, den |-> 1], [num |-> 1, den |-> 2]}
Masses == {1, 2}
SpeedLimits == {Unlimited, 4}

\* Shape 1 is a 4 x 4 box whose owner has a body of any configuration, in a
\* scene with a physics; shape 2 is a bodyless floor under it, whose owner
\* gameplay code may have deactivated (floor.active = false).
InitBody ==
    /\ PhysicsInit(<<1, 2>>)
    /\ EngineInit
    /\ SceneInit(AllOwners)
    /\ readmeScene = FALSE
    /\ col = [s \in ShapeIds |->
                 IF s = 1 THEN NewBox(4 * Unit, 4 * Unit, FALSE)
                 ELSE NewBox(8 * Unit, 2 * Unit, FALSE)]
    /\ \E floorActive \in BOOLEAN :
          obj = [s \in ShapeIds |->
                    IF s = 1 THEN [NewObject("a", 0, 0) EXCEPT !.scenePhysics = TRUE]
                    ELSE [NewObject("b", 0, 4 * Unit) EXCEPT !.active = floorActive]]
    /\ \E isKinematic \in BOOLEAN, useGravity \in BOOLEAN,
          mass \in Masses, drag \in Drags, limit \in SpeedLimits :
          rb = [s \in ShapeIds |->
                   IF s = 1
                   THEN [NewBody(isKinematic, 0, 0) EXCEPT
                            !.useGravity = useGravity,
                            !.mass = mass, !.drag = drag,
                            !.maxVelocityX = limit, !.maxVelocityY = limit]
                   ELSE NoBody]

NextBody ==
    \/ \E f \in Forces :
          /\ forceSince[1].x + f[1] \in (0 - MaxForce)..MaxForce
          /\ forceSince[1].y + f[2] \in (0 - MaxForce)..MaxForce
          /\ AddForce(1, f[1], f[2])
    \/ FixedUpdate
    \/ DetectCollisions

SpecBody == InitBody /\ [][NextBody]_vars

\* --------------------------------- registrations without a uniqueness check
\* addCollider is a plain push: gameplay code may register any shape, also one
\* that is in the list already. Three 4 x 4 boxes that overlap one another on
\* one row, at x = 0, 2 and 2.5; the first has a dynamic body.
InitTwice ==
    /\ PhysicsInit(<< >>)
    /\ EngineInit
    /\ SceneInit(AllOwners)
    /\ readmeScene = FALSE
    /\ obj = [s \in ShapeIds |-> NewObject("", IF s = 1 THEN 0 ELSE (s + 2) * (Unit \div 2), 0)]
    /\ rb = [s \in ShapeIds |-> BodyOfKind(WorldBody(s), Unit, Unit)]
    /\ col = [s \in ShapeIds |-> NewBox(4 * Unit, 4 * Unit, FALSE)]

NextTwice ==
    \/ \E s \in ShapeIds : AddCollider(s)
    \/ \E s \in ShapeIds : RemoveCollider(s)
    \/ DetectCollisions

SpecTwice == InitTwice /\ [][NextTwice]_vars

\* ------------------------------------------------ a scene and its owners
\* A new, plain Scene (no physics) and three owners without bodies; gameplay
\* code adds and removes the first two, and the engine ticks the scene.
SceneOwners == {1, 2}

InitScene ==
    /\ PhysicsInit(<< >>)
    /\ EngineInit
    /\ SceneInit(<< >>)
    /\ readmeScene = FALSE
    /\ obj = [s \in ShapeIds |-> NewObject("", 0, 0)]
    /\ rb = [s \in ShapeIds |-> NoBody]
    /\ col = [s \in ShapeIds |-> NewBox(4 * Unit, 4 * Unit, FALSE)]

NextScene ==
    \/ \E o \in SceneOwners : SceneAdd(o)
    \/ \E o \in SceneOwners : SceneRemove(o)
    \/ FixedUpdate

SpecScene == InitScene /\ [][NextScene]_vars

\* ------------------------------------------ one pair, every combination
PairBodies == {"none", "kinematic", "dynamic"}
PairColliders ==
    {NewBox(4 * Unit, 4 * Unit, t) : t \in BOOLEAN}
    \cup {NewBox(2 * Unit, 2 * Unit, t) : t \in BOOLEAN}
    \cup {NewBox(8 * Unit, 2 * Unit, t) : t \in BOOLEAN}
    \cup {NewCircle(2 * Unit, t) : t \in BOOLEAN}
    \cup {NewDerivedBox(4 * Unit, 4 * Unit, FALSE)}
PairOffsets == {k * Unit : k \in (0 - GridReach)..GridReach}

\* Shapes 1 and 2 are registered, of any kind, size, trigger flag and body, the
\* second anywhere on the grid around the first; further shapes stay unregistered.
InitPair ==
    /\ PhysicsInit(<<1, 2>>)
    /\ EngineInit
    /\ SceneInit(AllOwners)
    /\ readmeScene = FALSE
    /\ \E c1 \in PairColliders, c2 \in PairColliders,
          b1 \in PairBodies, b2 \in PairBodies,
          dx \in PairOffsets, dy \in PairOffsets :
          /\ obj = [s \in ShapeIds |->
                       IF s = 2 THEN NewObject("b", dx, dy) ELSE NewObject("a", 0, 0)]
          /\ rb = [s \in ShapeIds |->
                       IF s = 1 THEN BodyOfKind(b1, Unit, Unit)
                       ELSE IF s = 2 THEN BodyOfKind(b2, 0 - Unit, Unit)
                       ELSE NoBody]
          /\ col = [s \in ShapeIds |->
                       IF s = 1 THEN c1 ELSE IF s = 2 THEN c2
                       ELSE NewBox(2 * Unit, 2 * Unit, FALSE)]

\* where gameplay code may put the second shape, clear of the first
AwayX == 16 * Unit

NextPair ==
    \/ DetectCollisions
    \/ SetPosition(2, AwayX, 0)
    \/ \E dirX \in {0 - 1, 1} : Raycast(0, 0, dirX, 0, AwayX)

SpecPair == InitPair /\ [][NextPair]_vars

\* ------------------------------------------------- the scheduler alone
\* The engine as constructed, with a plain Scene or the README's platformer
\* scene; the world holds one unregistered box per shape.
InitEngine ==
    /\ PhysicsInit(<< >>)
    /\ EngineInit
    /\ SceneInit(AllOwners)
    /\ readmeScene \in BOOLEAN
    /\ obj = [s \in ShapeIds |-> NewObject("", 0, 0)]
    /\ rb = [s \in ShapeIds |-> NoBody]
    /\ col = [s \in ShapeIds |-> NewBox(4 * Unit, 4 * Unit, FALSE)]

NextEngine ==
    \/ \E gap \in Gaps : Start(lastTime + gap)
    \/ Stop
    \/ Pause
    \/ Resume
    \/ SetScene
    \/ \E gap \in Gaps : Frame(lastTime + gap)

SpecEngine == InitEngine /\ [][NextEngine]_vars

\* ------------------------------------------------ claims: the world
\* how often the callback `kind` was delivered to `receiver` with `other`
Delivered(kind, receiver, other) ==
    Cardinality({k \in 1..Len(call.events) : call.events[k] = <<kind, receiver, other>>})

Once(cond) == IF cond THEN 1 ELSE 0

\* both shapes were registered and active in this call and in the one before
\* (or this is the first call), and neither was unregistered in between
KeptPair(a, b) ==
    /\ a # b
    /\ {a, b} \in call.tested
    /\ call.first \/ {a, b} \in call.prevTested
    /\ a \notin call.removed /\ b \notin call.removed

\* C1 (as claimed): for two registered, active shapes, a call delivers enter to
\* both exactly when they overlap now and did not in the call before, stay
\* exactly when they overlap in both, exit exactly when they overlapped before
\* and do not now, and nothing when they overlap in neither.
C1_EventLifecycle ==
    call.made =>
        \A a \in ShapeIds, b \in ShapeIds :
            KeptPair(a, b) =>
                LET now == {a, b} \in Hits(call.log)
                    before == {a, b} \in call.prevHits
                IN  /\ Delivered("enter", a, b) = Once(now /\ ~before)
                    /\ Delivered("stay", a, b) = Once(now /\ before)
                    /\ Delivered("exit", a, b) = Once(~now /\ before)

\* C2 (as claimed): in one call no two different unordered pairs get the same
\* contact-table key, and a pair's key is the same whichever of its two shapes
\* stands first in the list.
C2_PairKeyUnique ==
    call.made =>
        \A e \in call.keys :
            /\ \A f \in call.keys : e.key = f.key => {e.a, e.b} = {f.a, f.b}
            /\ PairKey(obj, e.b, e.i, e.a, e.j) = e.key

\* C3 (as claimed): two shapes that stay registered, active and overlapping
\* from one call to the next receive stay, and neither enter nor exit, in the
\* later call, whatever was registered or unregistered in between.
C3_PairKeyStable ==
    call.made =>
        \A a \in ShapeIds, b \in ShapeIds :
            (/\ KeptPair(a, b)
             /\ ~call.first
             /\ {a, b} \in Hits(call.log)
             /\ {a, b} \in call.prevHits)
            => /\ Delivered("stay", a, b) = 1
               /\ Delivered("enter", a, b) = 0
               /\ Delivered("exit", a, b) = 0

HasTrigger(a, b) == col[a].isTrigger \/ col[b].isTrigger

\* C4: a colliding pair with a trigger shape gets its enter or stay callbacks
\* (both shapes, once each) and leaves both owners' positions and both bodies
\* as they were; a trigger pair that stopped colliding gets its exit callbacks.
C4_TriggerExemption ==
    call.made =>
        /\ \A k \in 1..Len(call.log) :
              LET l == call.log[k]
              IN  HasTrigger(l.a, l.b) =>
                      /\ l.event \in {"enter", "stay"}
                      /\ Delivered(l.event, l.a, l.b) = 1
                      /\ Delivered(l.event, l.b, l.a) = 1
                      /\ l.post = l.pre
                      /\ \A s \in {l.a, l.b} :
                            obj[s] = call.objBefore[s] /\ rb[s] = call.rbBefore[s]
        /\ \A a \in ShapeIds, b \in ShapeIds :
              (/\ KeptPair(a, b) /\ HasTrigger(a, b)
               /\ {a, b} \in call.prevHits /\ {a, b} \notin Hits(call.log))
              => Delivered("exit", a, b) = 1 /\ Delivered("exit", b, a) = 1

\* C4's case: a trigger box kept overlapping a box, both with bodies the
\* resolver would otherwise have moved
C4_Witness ==
    /\ call.made
    /\ \E k \in 1..Len(call.log) :
          LET l == call.log[k]
          IN  /\ HasTrigger(l.a, l.b)
              /\ ~(col[l.a].isTrigger /\ col[l.b].isTrigger)
              /\ col[l.a].kind = "BoxCollider" /\ col[l.b].kind = "BoxCollider"
              /\ Movable(rb, l.a) /\ Movable(rb, l.b)
              /\ l.event = "stay"

\* a call delivered the exit callbacks of a trigger pair that was moved apart
C4_ExitReached ==
    /\ call.made
    /\ HasTrigger(1, 2)
    /\ Delivered("exit", 1, 2) = 1 /\ Delivered("exit", 2, 1) = 1

Immovable(body) == ~body.present \/ body.isKinematic

\* C5: a call never changes the owner's position, nor the velocity or contact
\* flags, of a shape whose owner has a kinematic body or no body.
C5_ImmovableNeverWritten ==
    call.made =>
        \A s \in ShapeIds :
            Immovable(call.rbBefore[s]) =>
                /\ obj[s] = call.objBefore[s]
                /\ rb[s] = call.rbBefore[s]

\* C5's case: a pair was resolved in which one side is kinematic (or has no
\* body) and the other side was moved
C5_Witness ==
    /\ call.made
    /\ \E k \in 1..Len(call.log) :
          LET l == call.log[k]
          IN  /\ l.resolved
              /\ l.pre.rbA.present /\ l.pre.rbA.isKinematic
              /\ l.post.objB # l.pre.objB
    /\ \E k \in 1..Len(call.log) :
          LET l == call.log[k]
          IN  l.resolved /\ l.post # l.pre

\* C6 (as claimed): after a call, two boxes it resolved, at least one of which
\* has a movable body, no longer intersect.
C6_ResolutionSeparates ==
    call.made =>
        \A k \in 1..Len(call.log) :
            LET l == call.log[k]
            IN  (/\ l.resolved
                 /\ col[l.a].kind = "BoxCollider" /\ col[l.b].kind = "BoxCollider"
                 /\ Movable(call.rbBefore, l.a) \/ Movable(call.rbBefore, l.b))
                => ~BoxIntersects(obj, col, l.a, l.b)

\* the pair of log entry l, seen from its upper, movable side u (with game
\* object and body uo, ur before, uo2, ur2 after) onto the immovable side f
LandsOn(uBounds, fBounds, ur, fr) ==
    /\ ur.present /\ ~ur.isKinematic
    /\ Immovable(fr)
    /\ uBounds.y < fBounds.y
    /\ ~ResolveHorizontally(OverlapX(uBounds, fBounds), OverlapY(uBounds, fBounds))

Landed(uBounds, fBounds, uo, ur, uo2, ur2) ==
    /\ ur2.isGrounded
    /\ ur2.velocityY = 0
    /\ uo2.y = uo.y - OverlapY(uBounds, fBounds)
    /\ uo2.x = uo.x
    /\ ur2.velocityX = ur.velocityX

\* C7: when a movable body's box overlaps from above the box of a kinematic or
\* bodyless owner and the pair is resolved vertically, the upper body gets
\* isGrounded and velocityY = 0 and moves up by the whole overlapY, and the
\* lower side is not changed at all (its isGrounded included).
C7_GroundDetection ==
    call.made =>
        \A k \in 1..Len(call.log) :
            LET l == call.log[k]
                boundsA == BoundsOf(l.pre.objA, col[l.a])
                boundsB == BoundsOf(l.pre.objB, col[l.b])
                boxes == col[l.a].kind = "BoxCollider" /\ col[l.b].kind = "BoxCollider"
            IN  /\ (l.resolved /\ boxes /\ LandsOn(boundsA, boundsB, l.pre.rbA, l.pre.rbB))
                   => /\ Landed(boundsA, boundsB, l.pre.objA, l.pre.rbA,
                                l.post.objA, l.post.rbA)
                      /\ l.post.objB = l.pre.objB /\ l.post.rbB = l.pre.rbB
                /\ (l.resolved /\ boxes /\ LandsOn(boundsB, boundsA, l.pre.rbB, l.pre.rbA))
                   => /\ Landed(boundsB, boundsA, l.pre.objB, l.pre.rbB,
                                l.post.objB, l.post.rbB)
                      /\ l.post.objA = l.pre.objA /\ l.post.rbA = l.pre.rbA

\* C7's case: the second-registered box landed on the first, a bodyless floor
C7_Witness ==
    /\ call.made
    /\ \E k \in 1..Len(call.log) :
          LET l == call.log[k]
          IN  /\ l.resolved
              /\ col[l.a].kind = "BoxCollider" /\ col[l.b].kind = "BoxCollider"
              /\ LandsOn(BoundsOf(l.pre.objB, col[l.b]), BoundsOf(l.pre.objA, col[l.a]),
                         l.pre.rbB, l.pre.rbA)
              /\ ~l.pre.rbA.present
              /\ l.post.rbB.isGrounded /\ ~l.pre.rbB.isGrounded

\* -------------------------------------------- claims: the scheduler
Calls(name) == {k \in 1..Len(frameLog) : frameLog[k].call = name}

\* C8: the ticks run so far are floor(sum of the frame deltas / fixedDeltaTime),
\* the accumulator is the remainder, so 0 <= accumulator < fixedDeltaTime, and
\* every tick is run with dt = fixedDeltaTime.
C8_AccumulatorConservation ==
    /\ ticksRun = sumDelta \div FixedDeltaTime
    /\ accumulator = sumDelta % FixedDeltaTime
    /\ 0 <= accumulator
    /\ accumulator < FixedDeltaTime
    /\ \A k \in Calls("fixedUpdate") : frameLog[k].dt = FixedDeltaTime

\* C8's case: a frame ran two ticks or more on top of earlier ticks and left a
\* remainder for the next frame
C8_Witness ==
    /\ Cardinality(Calls("fixedUpdate")) >= 2
    /\ ticksRun > Cardinality(Calls("fixedUpdate"))
    /\ accumulator > 0
    /\ deltaTime % FixedDeltaTime # 0

\* C9: every frame's deltaTime lies in [0, 0.1 s], and no frame runs more
\* than 6 ticks, however long ago the previous frame was.
C9_StallClamp ==
    /\ 0 <= deltaTime
    /\ deltaTime <= MaxDeltaTime
    /\ Cardinality(Calls("fixedUpdate")) <= 6

\* C9's case: a frame came after a stall longer than 0.1 s and ran 6 ticks
C9_Witness ==
    /\ frameLog # << >>
    /\ frameLog[1].dt > MaxDeltaTime
    /\ deltaTime = MaxDeltaTime
    /\ Cardinality(Calls("fixedUpdate")) = 6

C11_FrameOrdering ==
    (frameLog # << >> /\ ~isPaused /\ hasScene) =>
        /\ Cardinality(Calls("update")) = 1
        /\ Cardinality(Calls("render")) = 1
        /\ frameLog[Len(frameLog)].call = "render"
        /\ \A u \in Calls("update") :
              /\ frameLog[u].dt = Min(frameLog[1].dt, MaxDeltaTime)
              /\ frameLog[u].dt = deltaTime
              /\ \A t \in Calls("fixedUpdate") : t < u
              /\ \A r \in Calls("render") : u < r

\* C11's case: a frame of a plain scene ran several ticks, then an update
\* whose delta is not the fixed tick
C11_Witness ==
    /\ ~readmeScene
    /\ ~isPaused
    /\ hasScene
    /\ Cardinality(Calls("fixedUpdate")) >= 2
    /\ Cardinality(Calls("update")) = 1
    /\ deltaTime # FixedDeltaTime

\* the shapes in a collider list
InList(list) == {list[k] : k \in 1..Len(list)}

\* how often a call tested the unordered pair {a, b}
TimesTested(a, b) == Cardinality({e \in call.keys : {e.a, e.b} = {a, b}})

\* C12 (as claimed): whatever the callbacks of a call register or unregister,
\* the call tests every unordered pair of the shapes registered when it
\* started exactly once, and tests no shape registered during the call.
C12_DeferredRegistration ==
    call.made =>
        /\ \A a \in InList(call.listBefore), b \in InList(call.listBefore) :
              a # b => TimesTested(a, b) = 1
        /\ \A e \in call.keys :
              e.a \in InList(call.listBefore) /\ e.b \in InList(call.listBefore)

\* C12's case: a callback unregistered a collider during the call and left a
\* pair of the starting list untested
C12_PairSkipped ==
    /\ call.made
    /\ Len(colliders) < Len(call.listBefore)
    /\ \E a \in InList(call.listBefore), b \in InList(call.listBefore) :
          a # b /\ TimesTested(a, b) = 0

\* C12's other case: a callback registered a collider during the call and the
\* call went on to test it
C12_LateShapeTested ==
    /\ call.made
    /\ \E e \in call.keys : e.b \notin InList(call.listBefore)

\* C13: the decision a call takes for its pair is the one the dispatch gives
\* with the two shapes in either order, for box/box, circle/circle, box/circle
\* and circle/box.
C13_IntersectionSymmetric ==
    (call.made /\ call.listBefore = <<1, 2>>) =>
        /\ ({1, 2} \in Hits(call.log)) = IsColliding(call.objBefore, col, 2, 1)
        /\ IsColliding(call.objBefore, col, 1, 2) = IsColliding(call.objBefore, col, 2, 1)

\* C13's case: a box registered before a circle, off the box's axes, and the
\* call found them colliding
C13_Witness ==
    /\ call.made
    /\ call.listBefore = <<1, 2>>
    /\ col[1].kind = "BoxCollider"
    /\ col[2].kind = "CircleCollider"
    /\ call.objBefore[2].x # call.objBefore[1].x
    /\ call.objBefore[2].y # call.objBefore[1].y
    /\ {1, 2} \in Hits(call.log)

Known(kind) == kind \in {"BoxCollider", "CircleCollider"}

\* C14: a call with a pair one of whose shapes is neither a BoxCollider nor a
\* CircleCollider completes, delivers no callback to the pair, resolves
\* nothing, changes no owner or body, and puts no entry in the contact table.
C14_UnknownKindNoCollision ==
    (/\ call.made
     /\ call.listBefore = <<1, 2>>
     /\ ~Known(col[1].kind) \/ ~Known(col[2].kind))
    => /\ call.tested = {{1, 2}}
       /\ call.events = << >>
       /\ call.log = << >>
       /\ collisionMatrix = << >>
       /\ obj = call.objBefore
       /\ rb = call.rbBefore

\* C14's case: a box of a derived class lies over a plain box, both owners
\* with dynamic bodies, and a call was made
C14_Witness ==
    /\ call.made
    /\ call.listBefore = <<1, 2>>
    /\ ~Known(col[1].kind)
    /\ col[2].kind = "BoxCollider"
    /\ BoxIntersects(call.objBefore, col, 1, 2)
    /\ Movable(rb, 1) /\ Movable(rb, 2)
    /\ collisionMatrix = << >>

\* -------------------------------------------------- claims: the ray caster
\* a <= b on numbers: false as soon as one side is NaN
LessEq(a, b) == ~a.nan /\ ~b.nan /\ ~Less(b, a)

\* tEntry and tExit of the last ray against the box of shape s
LastSlab(s) ==
    Slab(call.ray.x, call.ray.y, call.ray.dirX, call.ray.dirY, getBounds(obj, col, s))

\* tEntry <= tExit, tExit >= 0 and tEntry <= maxDistance
HitCondition(s) ==
    /\ LessEq(LastSlab(s).tNear, LastSlab(s).tFar)
    /\ LessEq(Num(0), LastSlab(s).tFar)
    /\ LessEq(LastSlab(s).tNear, Num(call.ray.distance))

ActiveBox(s) == s \in Registered /\ col[s].active /\ col[s].kind = "BoxCollider"

Returned(s) == call.ray.result.some /\ call.ray.result.collider = s

\* C15 (as claimed): a box that is the only active box registered is returned
\* by raycast exactly when tEntry <= tExit, tExit >= 0 and tEntry <= maxDistance,
\* a box with tEntry = maxDistance included; a box behind the origin is never
\* returned.
C15_RaycastHitCondition ==
    call.ray.made =>
        \A s \in ShapeIds :
            /\ (ActiveBox(s) /\ \A t \in ShapeIds \ {s} : ~ActiveBox(t))
               => (Returned(s) <=> HitCondition(s))
            /\ Returned(s) => LessEq(Num(0), LastSlab(s).tFar)

\* what raycast does: the box is returned exactly when tEntry <= tExit,
\* tExit >= 0 and tEntry < maxDistance
C15_StrictlyWithinReach ==
    call.ray.made =>
        \A s \in ShapeIds :
            (ActiveBox(s) /\ \A t \in ShapeIds \ {s} : ~ActiveBox(t))
            => (Returned(s) <=> (/\ HitCondition(s)
                                 /\ Less(LastSlab(s).tNear, Num(call.ray.distance))))

\* C15's case: the only active box starts exactly at the ray's full length
C15_AtFullLength ==
    /\ call.ray.made
    /\ \E s \in ShapeIds :
          /\ ActiveBox(s) /\ \A t \in ShapeIds \ {s} : ~ActiveBox(t)
          /\ HitCondition(s)
          /\ LastSlab(s).tNear = Num(call.ray.distance)
          /\ ~call.ray.result.some

\* the collider list in every other order
Reordered(list) ==
    {[k \in 1..Len(list) |-> list[f[k]]] : f \in Permutations(1..Len(list))}

\* the last ray, cast again over the given list
LastRayOver(list) ==
    raycast(obj, col, list, call.ray.x, call.ray.y, call.ray.dirX, call.ray.dirY,
            call.ray.distance)

\* distance = tEntry of the returned box, point = origin + direction * tEntry
CarriesEntryOf(result, s) ==
    /\ result.distance = LastSlab(s).tNear
    /\ result.x = PointAt(call.ray.x, call.ray.dirX, LastSlab(s).tNear)
    /\ result.y = PointAt(call.ray.y, call.ray.dirY, LastSlab(s).tNear)

\* C16 (as claimed): raycast returns null exactly when no active registered
\* box satisfies the hit condition; otherwise it returns such a box with the
\* smallest tEntry, with distance = tEntry and point = origin + direction *
\* tEntry, and the same answer whatever the order of registration; a circle
\* is never returned.
C16_RaycastNearest ==
    call.ray.made =>
        LET result == call.ray.result
            hits == {s \in ShapeIds : ActiveBox(s) /\ HitCondition(s)}
        IN  /\ result.some <=> hits # {}
            /\ result.some =>
                  /\ result.collider \in hits
                  /\ \A t \in hits :
                        LessEq(LastSlab(result.collider).tNear, LastSlab(t).tNear)
                  /\ CarriesEntryOf(result, result.collider)
            /\ \A list \in Reordered(colliders) : LastRayOver(list) = result

\* what raycast does: of the active registered boxes with tEntry <= tExit,
\* tExit >= 0 and tEntry < maxDistance it returns the first registered of
\* those with the smallest tEntry; distance and point do not depend on the
\* order of registration.
C16_NearestFirstRegistered ==
    call.ray.made =>
        LET result == call.ray.result
            hits == {s \in ShapeIds :
                        /\ ActiveBox(s) /\ HitCondition(s)
                        /\ Less(LastSlab(s).tNear, Num(call.ray.distance))}
        IN  /\ result.some <=> hits # {}
            /\ result.some =>
                  /\ result.collider \in hits
                  /\ \A t \in hits :
                        \/ Less(LastSlab(result.collider).tNear, LastSlab(t).tNear)
                        \/ /\ LastSlab(result.collider).tNear = LastSlab(t).tNear
                           /\ IndexOf(colliders, result.collider) <= IndexOf(colliders, t)
                  /\ CarriesEntryOf(result, result.collider)
            /\ \A list \in Reordered(colliders) :
                  [LastRayOver(list) EXCEPT !.collider = 0] = [result EXCEPT !.collider = 0]

\* C16's case: two boxes within reach start at the same tEntry and the one
\* registered first is returned
C16_TieReached ==
    /\ call.ray.made
    /\ call.ray.result.some
    /\ \E t \in ShapeIds \ {call.ray.result.collider} :
          /\ ActiveBox(t)
          /\ HitCondition(t)
          /\ LastSlab(t).tNear = call.ray.result.distance
          /\ IndexOf(colliders, call.ray.result.collider) < IndexOf(colliders, t)

\* C16's case: a circle is registered nearer to the origin than the box returned
C16_CircleSkipped ==
    /\ call.ray.made
    /\ call.ray.result.some
    /\ call.ray.dirX = 1 /\ call.ray.dirY = 0
    /\ 3 \in Registered
    /\ Less(Num(0), call.ray.result.distance)

\* C17: a raycast step changes neither the collider list, nor the contact
\* table, nor any owner, body or collider, and delivers no callback; a
\* detectCollisions after it delivers the events, and leaves the world, that
\* it would have without the raycast.
C17_RaycastPure ==
    [][call'.ray.made =>
          /\ colliders' = colliders
          /\ collisionMatrix' = collisionMatrix
          /\ obj' = obj
          /\ rb' = rb
          /\ col' = col
          /\ call'.events = << >>
          /\ detectCollisions(obj', rb', col', colliders', collisionMatrix')
                = detectCollisions(obj, rb, col, colliders, collisionMatrix)]_vars

\* C17's case: a ray was cast and hit a box while a pair is in the contact
\* table and the resolver has set a contact flag
C17_Witness ==
    /\ call.ray.made
    /\ call.ray.result.some
    /\ collisionMatrix # << >>
    /\ \E s \in ShapeIds : rb[s].isGrounded \/ rb[s].isTouchingWall

\* ------------------------------------------------------- claims: the body
\* C18: no step - a detectCollisions call with its resolutions, a fixed tick
\* with its integrations, an addForce - takes isGrounded or isTouchingWall of
\* any body from true to false.
C18_StickyFlags ==
    [][\A s \in ShapeIds :
          /\ rb[s].isGrounded => rb'[s].isGrounded
          /\ rb[s].isTouchingWall => rb'[s].isTouchingWall]_vars

\* C18's case: a body the resolver had grounded was integrated, moved on, and
\* is still flagged as grounded
C18_Witness ==
    /\ call.tick.made
    /\ call.rbBefore[1].isGrounded
    /\ rb[1].isGrounded
    /\ obj[1] # call.objBefore[1]
    /\ rb[1].velocityY # 0

\* the velocity a tick of length dt gives a body that had velocity v, with
\* the force f spread over its mass and the gravity g added
VelocityAfter(v, f, g, body, maxVelocity, dt) ==
    ClampVelocity(Dragged(v + (f \div body.mass + g) * dt, body.drag), maxVelocity)

GravityOn(body, gameObject) ==
    IF body.useGravity /\ gameObject.scenePhysics THEN Gravity * body.gravityScale ELSE 0

\* C19: addForce changes no velocity and no position when it is called; a
\* tick applies to a non-kinematic active body the sum of the forces added
\* since its last tick, once, and leaves pendingForce and acceleration at
\* zero, so that a later tick sees only the forces added after it.
C19_ForcesConsumedOnce ==
    /\ call.force.made =>
          /\ obj = call.objBefore
          /\ \A s \in ShapeIds :
                /\ rb[s].velocityX = call.rbBefore[s].velocityX
                /\ rb[s].velocityY = call.rbBefore[s].velocityY
    /\ call.tick.made =>
          \A s \in ShapeIds :
              LET before == call.rbBefore[s]
                  owner == call.objBefore[s]
                  sum == call.tick.forces[s]
              IN  (Integrates(before, owner) /\ ~before.isKinematic) =>
                      /\ rb[s].velocityX
                            = VelocityAfter(before.velocityX, sum.x, 0, before,
                                            before.maxVelocityX, call.tick.dt)
                      /\ rb[s].velocityY
                            = VelocityAfter(before.velocityY, sum.y,
                                            GravityOn(before, owner), before,
                                            before.maxVelocityY, call.tick.dt)
                      /\ rb[s].forceX = 0 /\ rb[s].forceY = 0
                      /\ rb[s].accelerationX = 0 /\ rb[s].accelerationY = 0
                      /\ forceSince[s] = [x |-> 0, y |-> 0]

\* C19's case: two forces were added to a body without gravity since its last
\* tick, and a tick turned their sum into velocity
C19_Witness ==
    /\ call.tick.made
    /\ ~rb[1].isKinematic
    /\ ~rb[1].useGravity
    /\ call.tick.forces[1].x # 0
    /\ call.tick.forces[1].y # 0
    /\ call.rbBefore[1].velocityX = 0
    /\ rb[1].velocityX # 0
    /\ rb[1].velocityY # 0
    /\ rb[1].forceX = 0

\* C20: a tick leaves the owner's position and the velocity, acceleration and
\* pendingForce of a kinematic body as they were, whatever forces were added
\* and whether or not gravity acts on it.
C20_KinematicSkipsIntegration ==
    call.tick.made =>
        \A s \in ShapeIds :
            (call.rbBefore[s].present /\ call.rbBefore[s].isKinematic) =>
                /\ obj[s] = call.objBefore[s]
                /\ rb[s] = call.rbBefore[s]
                /\ forceSince[s] = call.tick.forces[s]

\* C20's case: a tick passed over a kinematic body under gravity with forces
\* pending on both axes
C20_Witness ==
    /\ call.tick.made
    /\ rb[1].isKinematic
    /\ rb[1].useGravity /\ obj[1].scenePhysics
    /\ rb[1].forceX # 0
    /\ rb[1].forceY # 0

\* ----------------------------------------------- claims: the resolver's axes
\* log entry l is a pair of boxes that resolveCollision worked on: it was not
\* a trigger pair and at least one side could be moved
ResolvedBoxes(l) ==
    /\ l.resolved
    /\ col[l.a].kind = "BoxCollider" /\ col[l.b].kind = "BoxCollider"
    /\ (l.pre.rbA.present /\ ~l.pre.rbA.isKinematic)
       \/ (l.pre.rbB.present /\ ~l.pre.rbB.isKinematic)

\* overlapX and overlapY of log entry l's pair as resolveCollision saw them
LogOverlapX(l) == OverlapX(BoundsOf(l.pre.objA, col[l.a]), BoundsOf(l.pre.objB, col[l.b]))
LogOverlapY(l) == OverlapY(BoundsOf(l.pre.objA, col[l.a]), BoundsOf(l.pre.objB, col[l.b]))

\* the resolution of l left the vertical (horizontal) side of both owners and
\* bodies alone
VerticalUntouched(l) ==
    /\ l.post.objA.y = l.pre.objA.y /\ l.post.objB.y = l.pre.objB.y
    /\ l.post.rbA.velocityY = l.pre.rbA.velocityY
    /\ l.post.rbB.velocityY = l.pre.rbB.velocityY
    /\ l.post.rbA.isGrounded = l.pre.rbA.isGrounded
    /\ l.post.rbB.isGrounded = l.pre.rbB.isGrounded
HorizontalUntouched(l) ==
    /\ l.post.objA.x = l.pre.objA.x /\ l.post.objB.x = l.pre.objB.x
    /\ l.post.rbA.velocityX = l.pre.rbA.velocityX
    /\ l.post.rbB.velocityX = l.pre.rbB.velocityX
    /\ l.post.rbA.isTouchingWall = l.pre.rbA.isTouchingWall
    /\ l.post.rbB.isTouchingWall = l.pre.rbB.isTouchingWall

LogMovable(body) == body.present /\ ~body.isKinematic

\* displacement d of one side is the halving rule's share of overlap: all of
\* it when the other side cannot move, exactly half of it when it can
HalvingShare(d, overlap, otherMovable) ==
    IF otherMovable THEN 2 * d = overlap \/ 2 * d = 0 - overlap
                    ELSE d = overlap \/ d = 0 - overlap

\* C22: on the resolved axis a movable body moves by the full overlap when the
\* other side is immovable and by half of it when both are movable, two moved
\* bodies move in opposite directions, the moved body's velocity on that axis
\* becomes 0, an immovable side stays, and the other axis is unchanged.
C22_HalvingRule ==
    call.made =>
        \A k \in 1..Len(call.log) :
            LET l == call.log[k]
                movA == LogMovable(l.pre.rbA)
                movB == LogMovable(l.pre.rbB)
                dxA == l.post.objA.x - l.pre.objA.x
                dxB == l.post.objB.x - l.pre.objB.x
                dyA == l.post.objA.y - l.pre.objA.y
                dyB == l.post.objB.y - l.pre.objB.y
            IN  ResolvedBoxes(l) =>
                    IF LogOverlapX(l) < LogOverlapY(l)
                    THEN /\ movA => HalvingShare(dxA, LogOverlapX(l), movB)
                                    /\ l.post.rbA.velocityX = 0
                         /\ movB => HalvingShare(dxB, LogOverlapX(l), movA)
                                    /\ l.post.rbB.velocityX = 0
                         /\ ~movA => dxA = 0 /\ l.post.rbA.velocityX = l.pre.rbA.velocityX
                         /\ ~movB => dxB = 0 /\ l.post.rbB.velocityX = l.pre.rbB.velocityX
                         /\ (movA /\ movB) => dxA + dxB = 0
                         /\ dyA = 0 /\ dyB = 0
                         /\ l.post.rbA.velocityY = l.pre.rbA.velocityY
                         /\ l.post.rbB.velocityY = l.pre.rbB.velocityY
                    ELSE /\ movA => HalvingShare(dyA, LogOverlapY(l), movB)
                                    /\ l.post.rbA.velocityY = 0
                         /\ movB => HalvingShare(dyB, LogOverlapY(l), movA)
                                    /\ l.post.rbB.velocityY = 0
                         /\ ~movA => dyA = 0 /\ l.post.rbA.velocityY = l.pre.rbA.velocityY
                         /\ ~movB => dyB = 0 /\ l.post.rbB.velocityY = l.pre.rbB.velocityY
                         /\ (movA /\ movB) => dyA + dyB = 0
                         /\ dxA = 0 /\ dxB = 0
                         /\ l.post.rbA.velocityX = l.pre.rbA.velocityX
                         /\ l.post.rbB.velocityX = l.pre.rbB.velocityX

\* C22's case: two dynamic boxes were resolved horizontally and each moved by
\* half the overlap while keeping a vertical velocity
C22_Witness ==
    /\ call.made
    /\ \E k \in 1..Len(call.log) :
          LET l == call.log[k]
          IN  /\ ResolvedBoxes(l)
              /\ LogMovable(l.pre.rbA) /\ LogMovable(l.pre.rbB)
              /\ LogOverlapX(l) < LogOverlapY(l)
              /\ 2 * (l.post.objA.x - l.pre.objA.x) \in {LogOverlapX(l), 0 - LogOverlapX(l)}
              /\ l.post.objB.x # l.pre.objB.x
              /\ l.pre.rbA.velocityX # 0
              /\ l.post.rbA.velocityY # 0

\* ------------------------------------------ claims: who takes part in a call
\* C23 (as claimed): a registered shape whose owner is inactive is in no tested
\* pair of a call, is in no enter or stay event and is not moved by it.
C23_InactiveOwnersSkipped ==
    call.made =>
        \A s \in ShapeIds :
            ((\E k \in 1..Len(call.listBefore) : call.listBefore[k] = s)
                /\ ~call.objBefore[s].active) =>
                /\ \A pair \in call.tested : s \notin pair
                /\ \A k \in 1..Len(call.events) :
                      call.events[k][1] \in {"enter", "stay"}
                          => s \notin {call.events[k][2], call.events[k][3]}
                /\ obj[s].x = call.objBefore[s].x /\ obj[s].y = call.objBefore[s].y

\* C24 (as claimed): whatever was registered and unregistered, also the same
\* shape twice, a call tests no shape against itself, delivers no callback
\* whose argument is its receiver and resolves no shape against itself.
C24_NoSelfPairs ==
    call.made =>
        /\ \A e \in call.keys : e.a # e.b
        /\ \A k \in 1..Len(call.events) : call.events[k][2] # call.events[k][3]
        /\ \A k \in 1..Len(call.log) : call.log[k].a # call.log[k].b

\* ------------------------------------- claims: callbacks and the resolution
\* the owner (body) of shape s as the call's log entries before the k-th left
\* it: as the latest of them that had s in its pair left it, and as it was when
\* the call began if there is none
EarlierWith(k, s) == {m \in 1..(k - 1) : s \in {call.log[m].a, call.log[m].b}}
LatestWith(k, s) == CHOOSE m \in EarlierWith(k, s) : \A n \in EarlierWith(k, s) : n <= m
ObjBeforeEntry(k, s) ==
    IF EarlierWith(k, s) = {} THEN call.objBefore[s]
    ELSE LET l == call.log[LatestWith(k, s)]
         IN  IF l.b = s THEN l.post.objB ELSE l.post.objA
RbBeforeEntry(k, s) ==
    IF EarlierWith(k, s) = {} THEN call.rbBefore[s]
    ELSE LET l == call.log[LatestWith(k, s)]
         IN  IF l.b = s THEN l.post.rbB ELSE l.post.rbA

\* C25: for every colliding pair of a call both shapes get their enter or stay
\* callback, and what the callbacks can read of the two owners and bodies is
\* what they were before this pair's resolution.
C25_CallbacksPrecedeResolution ==
    call.made =>
        \A k \in 1..Len(call.log) :
            LET l == call.log[k]
            IN  /\ \E m \in 1..Len(call.events) :
                      /\ m < Len(call.events)
                      /\ call.events[m] = <<l.event, l.a, l.b>>
                      /\ call.events[m + 1] = <<l.event, l.b, l.a>>
                /\ l.observed.objA = ObjBeforeEntry(k, l.a)
                /\ l.observed.objB = ObjBeforeEntry(k, l.b)
                /\ l.observed.rbA = RbBeforeEntry(k, l.a)
                /\ l.observed.rbB = RbBeforeEntry(k, l.b)

\* C25's case: a pair was resolved, which moved an owner and stopped its body,
\* after its callbacks ran
C25_Witness ==
    /\ call.made
    /\ \E k \in 1..Len(call.log) :
          LET l == call.log[k]
          IN  /\ l.resolved
              /\ l.post.objA # l.pre.objA
              /\ l.post.rbA # l.pre.rbA
              /\ l.observed.objA = call.objBefore[l.a]
              /\ obj[l.a] # call.objBefore[l.a]

\* ------------------------------------------ claims: the order of the pairs
\* the (event kind, unordered pair) deliveries of a call's events
Deliveries(events) == {<<events[k][1], {events[k][2], events[k][3]}>> : k \in 1..Len(events)}

\* C26 (as claimed): from any state, a call delivers the same set of
\* (event kind, pair) whatever the order of the same colliders in the list.
C26_OrderIndependent ==
    \A list \in Reordered(colliders) :
        Deliveries(detectCollisions(obj, rb, col, list, collisionMatrix).events)
            = Deliveries(detectCollisions(obj, rb, col, colliders, collisionMatrix).events)

\* ------------------------------------------------ claims: the integrator
\* the reference step on one axis: the velocity after a tick of length dt of a
\* body with velocity v, acceleration a, pending force f, gravity term g
ReferenceVelocity(v, a, f, g, body, maxVelocity, dt) ==
    LET acceleration == a + g + f \div body.mass
        integrated == v + acceleration * dt
        dragged == (integrated * (body.drag.den - body.drag.num)) \div body.drag.den
    IN  IF maxVelocity = Unlimited THEN dragged
        ELSE IF dragged > maxVelocity THEN maxVelocity
        ELSE IF dragged < 0 - maxVelocity THEN 0 - maxVelocity
        ELSE dragged

Gone(a) == a \in call.removed /\ a \notin InList(call.listBefore)

\* C28 (as claimed): when a shape of a pair that collided in the call before
\* was unregistered since, this call delivers exit to both shapes of the pair,
\* once each; and a call delivers no event for a pair with an unregistered
\* shape otherwise. (Clearing the collider's active flag is the same skip.)
C28_ExitOnRemoval ==
    call.made =>
        \A a \in ShapeIds, b \in ShapeIds :
            a # b =>
                /\ ({a, b} \in call.prevHits /\ Gone(a)) =>
                      /\ Delivered("exit", a, b) = 1
                      /\ Delivered("exit", b, a) = 1
                /\ (a \notin InList(call.listBefore) /\ {a, b} \notin call.prevHits) =>
                      \A kind \in {"enter", "stay", "exit"} :
                          Delivered(kind, a, b) = 0 /\ Delivered(kind, b, a) = 0

\* ----------------------------------------------- claims: the paused engine
\* C29: a frame of a running engine sets lastTime to its timestamp; paused or
\* without a scene it runs no fixedUpdate and no update and leaves the
\* accumulator alone; otherwise it banks only its own clamped delta, the time
\* since the frame before, whatever that frame was.
C29_PauseBanksNoTime ==
    [][(isRunning /\ frames' = frames + 1) =>
          /\ frameLog'[1].call = "gameLoop"
          /\ lastTime' = lastTime + frameLog'[1].dt
          /\ (isPaused \/ ~hasScene) =>
                /\ accumulator' = accumulator
                /\ ticksRun' = ticksRun
                /\ \A k \in 1..Len(frameLog') :
                      frameLog'[k].call \notin {"fixedUpdate", "update", "detectCollisions"}
          /\ (~isPaused /\ hasScene) =>
                /\ accumulator' + FixedDeltaTime * (ticksRun' - ticksRun)
                      = accumulator + Min(lastTime' - lastTime, MaxDeltaTime)
                /\ ticksRun' - ticksRun
                      = Cardinality({k \in 1..Len(frameLog') :
                                        frameLog'[k].call = "fixedUpdate"})]_vars

\* C29's case: a frame ran while the engine, which has a scene and has ticked
\* before, was paused, a stall after the frame before it, and time was left
\* in the accumulator
C29_Witness ==
    /\ isRunning /\ isPaused /\ hasScene
    /\ frameLog # << >>
    /\ frameLog[1].dt > MaxDeltaTime
    /\ ticksRun > 0
    /\ accumulator > 0

\* ------------------------------------------------- claims: the scene
\* since the latest fixedUpdate owner o was passed to Scene.add and after that
\* to Scene.remove, and not to Scene.add again
AddedThenRemoved(o) ==
    \E i \in 1..Len(requests), j \in 1..Len(requests) :
        /\ i < j
        /\ requests[i] = [op |-> "add", o |-> o]
        /\ requests[j] = [op |-> "remove", o |-> o]
        /\ \A k \in (j + 1)..Len(requests) : requests[k] # [op |-> "add", o |-> o]

\* C30 (as claimed): gameObjects changes in Scene.fixedUpdate only, and an
\* owner that was added and then removed before a fixedUpdate is no member of
\* gameObjects after it and was not started by it.
C30_DeferredAndOrdered ==
    [][/\ gameObjects' # gameObjects => call'.tick.made
       /\ call'.tick.made =>
             \A o \in ShapeIds :
                 (AddedThenRemoved(o) /\ CountIn(gameObjects, o) = 0) =>
                     /\ CountIn(gameObjects', o) = 0
                     /\ started'[o] = started[o]]_vars

====
